---- MODULE Spec2Model ----
(***************************************************************************)
(* A model of the raycasting engine of src/main.py: the tile map (Map),    *)
(* the player with its collision-checked movement (Player) and the DDA     *)
(* ray caster (Raycaster).                                                 *)
(*                                                                         *)
(* Numbers.  Python floats are modelled by exact arithmetic:               *)
(*   - world coordinates are integers counting 1/UNIT of a pixel;          *)
(*   - angles are integers counting 1/TWO_PI of a full turn (3 degrees);   *)
(*   - math.cos / math.sin are tabulated to 1/TRIG (two decimals);         *)
(*   - every distance of the ray caster is an exact rational <<n, d>>,     *)
(*     d > 0, and float('inf') is <<1, 0>>.                                *)
(* The rounding of float operations is not modelled.                       *)
(***************************************************************************)
EXTENDS Integers, Sequences, FiniteSets

VARIABLES
    x, y, angle,        \* Player.x, Player.y, Player.angle
    screen_width,       \* Raycaster.screen_width
    MAX_DEPTH,          \* Raycaster.MAX_DEPTH
    pc,                 \* position of the running call
    col,                \* cast_all: the loop variable
    ray_results,        \* cast_all: the list being built
    ray,                \* _cast_ray: its local variables
    cast_log,           \* history: one record per finished _cast_ray call
    call,               \* history: the last direct call, its arguments and result
    calls               \* history: number of calls made so far

vars == <<x, y, angle, screen_width, MAX_DEPTH, pc, col, ray_results, ray,
          cast_log, call, calls>>

-----------------------------------------------------------------------------
(* Constants of src/main.py *)

SCREEN_HEIGHT == 720
TILE_SIZE == 64
MARGIN == 10
\* MOVE_SPEED = 1.5, as the fraction 3/2
MOVE_SPEED == <<3, 2>>

\* world units per pixel: the resolution of the float coordinates
UNIT == 200
\* the scale of the cos/sin table: math.cos(a) = Cos(a) / TRIG
TRIG == 100
\* 2 * math.pi in angle units (one unit is 3 degrees)
TWO_PI == 120
\* FOV = math.pi / 3 in angle units
FOV == 20
\* ROT_SPEED: angle units turned per unit of pointer motion
ROT_SPEED == 1

WALL == 1
EMPTY == 0

\* TILE_SIZE in world units
TileUnits == TILE_SIZE * UNIT

-----------------------------------------------------------------------------
(* Arithmetic *)

Abs(n) == IF n < 0 THEN -n ELSE n

Min(a, b) == IF a < b THEN a ELSE b

Max(a, b) == IF a > b THEN a ELSE b

RECURSIVE GCD(_, _)
GCD(a, b) == IF b = 0 THEN a ELSE GCD(b, a % b)

\* Python's float %: the result has the sign of the (positive) divisor
PyMod(v, w) == v % w

\* the first quadrant of math.cos, every 3 degrees, rounded to 1/TRIG
CosTable ==
    << 100, 100, 99, 99, 98, 97, 95, 93, 91, 89,
       87, 84, 81, 78, 74, 71, 67, 63, 59, 54,
       50, 45, 41, 36, 31, 26, 21, 16, 10, 5, 0 >>

\* math.cos(a) * TRIG, for any angle a
Cos(a) ==
    LET t == a % TWO_PI
        q == TWO_PI \div 4
    IN  IF t <= q THEN CosTable[t + 1]
        ELSE IF t <= 2 * q THEN -CosTable[2 * q - t + 1]
        ELSE IF t <= 3 * q THEN -CosTable[t - 2 * q + 1]
        ELSE CosTable[4 * q - t + 1]

\* math.sin(a) * TRIG, for any angle a
Sin(a) == Cos(a - TWO_PI \div 4)

(* Rationals <<n, d>> with d > 0; <<1, 0>> is float('inf') *)

Inf == <<1, 0>>

IsInf(a) == a[2] = 0

\* a < b for finite a, b with positive denominators, without forming products:
\* compare the integer parts, then the reciprocals of the fractional parts
RECURSIVE FinLess(_, _)
FinLess(a, b) ==
    LET qa == a[1] \div a[2]
        qb == b[1] \div b[2]
        ra == a[1] % a[2]
        rb == b[1] % b[2]
    IN  IF qa # qb THEN qa < qb
        ELSE IF rb = 0 THEN FALSE
        ELSE IF ra = 0 THEN TRUE
        ELSE FinLess(<<b[2], rb>>, <<a[2], ra>>)

\* a < b on floats
RatLess(a, b) ==
    IF IsInf(a) THEN FALSE
    ELSE IF IsInf(b) THEN TRUE
    ELSE FinLess(a, b)

RatEq(a, b) == ~RatLess(a, b) /\ ~RatLess(b, a)

\* a + b (inf + finite = inf)
RatAdd(a, b) ==
    IF IsInf(a) \/ IsInf(b) THEN Inf
    ELSE LET l == (a[2] \div GCD(a[2], b[2])) * b[2]
         IN  <<a[1] * (l \div a[2]) + b[1] * (l \div b[2]), l>>

\* a - b for finite b (inf - finite = inf)
RatSub(a, b) == RatAdd(a, <<-b[1], b[2]>>)

\* a * k for an integer k > 0
RatTimes(a, k) ==
    IF IsInf(a) THEN Inf
    ELSE LET g == GCD(k, a[2]) IN <<a[1] * (k \div g), a[2] \div g>>

\* a / k for an integer k > 0
RatOver(a, k) ==
    IF IsInf(a) THEN Inf
    ELSE LET g == GCD(Abs(a[1]), k) IN <<a[1] \div g, a[2] * (k \div g)>>

\* a * b for a finite a >= 0 and b finite or inf, b > 0
RatMul(a, b) ==
    IF IsInf(b) THEN Inf
    ELSE LET g1 == GCD(a[1], b[2])
             g2 == GCD(b[1], a[2])
         IN  <<(a[1] \div g1) * (b[1] \div g2), (a[2] \div g2) * (b[2] \div g1)>>

\* max(a, b) of Python on floats: b only when b > a
RatMax(a, b) == IF RatLess(a, b) THEN b ELSE a

\* int(a) for a finite a > 0, and int(inf) never happens
RatInt(a) == a[1] \div a[2]

-----------------------------------------------------------------------------
(* class Map *)

grid ==
    << <<1, 1, 1, 1, 1, 1, 1, 1, 1, 1, 1, 1, 1, 1, 1, 1>>,
       <<1, 0, 0, 0, 0, 0, 0, 0, 0, 0, 0, 0, 0, 0, 0, 1>>,
       <<1, 0, 1, 0, 1, 0, 0, 0, 0, 0, 0, 0, 0, 0, 0, 1>>,
       <<1, 0, 1, 1, 1, 0, 1, 1, 1, 1, 0, 1, 1, 1, 1, 1>>,
       <<1, 0, 1, 1, 1, 0, 0, 0, 0, 0, 0, 1, 0, 1, 0, 1>>,
       <<1, 0, 1, 1, 1, 0, 0, 0, 0, 0, 0, 0, 0, 1, 0, 1>>,
       <<1, 0, 1, 1, 0, 0, 1, 1, 1, 0, 1, 1, 1, 1, 0, 1>>,
       <<1, 0, 0, 0, 0, 0, 1, 0, 1, 0, 0, 1, 0, 1, 0, 1>>,
       <<1, 0, 1, 1, 1, 0, 1, 1, 1, 0, 0, 1, 0, 0, 0, 1>>,
       <<1, 0, 1, 0, 0, 0, 0, 1, 0, 0, 0, 1, 0, 1, 0, 1>>,
       <<1, 0, 1, 1, 0, 0, 0, 1, 0, 0, 1, 0, 0, 1, 0, 1>>,
       <<1, 0, 1, 0, 1, 0, 0, 1, 0, 1, 1, 0, 0, 1, 0, 1>>,
       <<1, 0, 1, 0, 1, 0, 0, 0, 0, 0, 0, 0, 0, 1, 0, 1>>,
       <<1, 0, 1, 1, 1, 0, 1, 1, 1, 1, 0, 0, 0, 0, 0, 1>>,
       <<1, 0, 0, 0, 0, 0, 0, 0, 0, 0, 0, 0, 0, 1, 0, 1>>,
       <<1, 1, 1, 1, 1, 1, 1, 1, 1, 1, 1, 1, 1, 1, 1, 1>> >>

num_rows == Len(grid)

num_cols == Len(grid[1])

\* Map.get_tile with the bounds test dropped on the column's upper side
get_tile_wrapping(c, r) ==
    IF 0 <= r /\ r < num_rows /\ 0 <= c
        THEN grid[r + 1][(c % num_cols) + 1]
        ELSE WALL

\* Map.get_tile: the stored tile inside the grid, WALL outside it
get_tile(c, r) ==
    IF 0 <= r /\ r < num_rows /\ 0 <= c /\ c < num_cols
        THEN grid[r + 1][c + 1]
        ELSE WALL

\* Map.is_wall: world coordinates to grid indices by floor division
is_wall(world_x, world_y) ==
    LET grid_col == world_x \div TileUnits
        grid_row == world_y \div TileUnits
    IN  get_tile(grid_col, grid_row) = WALL

-----------------------------------------------------------------------------
(* Values of the variables a call does not use *)

NoRay == [ray_angle |-> 0]

NoCall == [op |-> "none"]

\* the state of a freshly constructed Player, Raycaster and Map
Constructed(px, py, pa, w, d) ==
    /\ x = px /\ y = py /\ angle = pa
    /\ screen_width = w
    /\ MAX_DEPTH = d
    /\ pc = "idle"
    /\ col = 0
    /\ ray_results = <<>>
    /\ ray = NoRay
    /\ cast_log = <<>>
    /\ call = NoCall
    /\ calls = 0

\* the centre of tile (c, r) in world units
Centre(c) == c * TileUnits + TileUnits \div 2

-----------------------------------------------------------------------------
(* class Player *)

\* Player._try_move with the two probes of an axis joined by "or"
try_move_either_probe(px, py, delta_x, delta_y) ==
    LET m == MARGIN * UNIT
        x_clear == \/ ~is_wall(px + delta_x, py - m)
                   \/ ~is_wall(px + delta_x, py + m)
        nx == IF x_clear THEN px + delta_x ELSE px
        y_clear == \/ ~is_wall(nx - m, py + delta_y)
                   \/ ~is_wall(nx + m, py + delta_y)
        ny == IF y_clear THEN py + delta_y ELSE py
    IN  <<nx, ny>>

\* Player._try_move with the Y probes taken at the current y, not at y + delta_y
try_move_stale_probe(px, py, delta_x, delta_y) ==
    LET m == MARGIN * UNIT
        x_clear == /\ ~is_wall(px + delta_x, py - m)
                   /\ ~is_wall(px + delta_x, py + m)
        nx == IF x_clear THEN px + delta_x ELSE px
        y_clear == /\ ~is_wall(nx - m, py)
                   /\ ~is_wall(nx + m, py)
        ny == IF y_clear THEN py + delta_y ELSE py
    IN  <<nx, ny>>

\* Player._try_move from (px, py): the position it leaves the player at.
\* The X move is tested at (px + delta_x, py -+ MARGIN) and committed, then the
\* Y move is tested at (nx -+ MARGIN, py + delta_y) with the updated x.
try_move(px, py, delta_x, delta_y) ==
    LET m == MARGIN * UNIT
        x_clear == /\ ~is_wall(px + delta_x, py - m)
                   /\ ~is_wall(px + delta_x, py + m)
        nx == IF x_clear THEN px + delta_x ELSE px
        y_clear == /\ ~is_wall(nx - m, py + delta_y)
                   /\ ~is_wall(nx + m, py + delta_y)
        ny == IF y_clear THEN py + delta_y ELSE py
    IN  <<nx, ny>>

\* cos or sin (scaled by TRIG) times MOVE_SPEED, in world units: exact,
\* because UNIT * MOVE_SPEED[1] is a multiple of TRIG * MOVE_SPEED[2]
Forward(c) == (c * MOVE_SPEED[1] * UNIT) \div (MOVE_SPEED[2] * TRIG)

\* try_move applied to a position pair when the key is held
MoveIf(held, p, delta_x, delta_y) ==
    IF held THEN try_move(p[1], p[2], delta_x, delta_y) ELSE p

\* Player.handle_input: the new <<x, y, angle>> for the keys held and the
\* pointer motion of the frame
handle_input(px, py, pa, keys, mouse_dx) ==
    LET na == PyMod(pa + mouse_dx * ROT_SPEED, TWO_PI)
        forward_dx == Forward(Cos(na))
        forward_dy == Forward(Sin(na))
        p1 == MoveIf("w" \in keys, <<px, py>>, forward_dx, forward_dy)
        p2 == MoveIf("s" \in keys, p1, -forward_dx, -forward_dy)
        p3 == MoveIf("a" \in keys, p2, forward_dy, -forward_dx)
        p4 == MoveIf("d" \in keys, p3, -forward_dy, forward_dx)
    IN  <<p4[1], p4[2], na>>

-----------------------------------------------------------------------------
(* class Raycaster *)

FISHEYE_CORRECTION == TRUE

\* the smallest perp_dist, 0.0001
MinDist == <<1, 10000>>

\* cast_all: fov / 2 and fov / screen_width.  The division is exact for the
\* screen widths of ScreenWidths, which all divide FOV.
half_fov == FOV \div 2

angle_step(w) == FOV \div w

\* cast_all: the angle of column c + 1 instead of column c
ray_angle_next_column(pa, w, c) == (pa - half_fov) + (c + 1) * angle_step(w)

\* cast_all: ray_angle = start_angle + col * angle_step
ray_angle_of(pa, w, c) == (pa - half_fov) + c * angle_step(w)

\* list.append at the front of the list
push_front(list, item) == <<item>> \o list

\* cast_all: ray_results.append(...)
append(list, item) == Append(list, item)

\* cast_all: the shade scaled up by 1 / 0.75
darken_inverted(shade) == (shade * 4) \div 3

\* cast_all: int(shade * 0.75)
darken(shade) == (shade * 3) \div 4

\* _cast_ray up to the DDA loop: the locals for a ray from (px, py)
cast_ray_begin(a, px, py) ==
    LET ray_dx == Cos(a)
        ray_dy == Sin(a)
        map_col == px \div TileUnits
        map_row == py \div TileUnits
        delta_dist_x == IF ray_dx # 0 THEN <<TRIG, Abs(ray_dx)>> ELSE Inf
        delta_dist_y == IF ray_dy # 0 THEN <<TRIG, Abs(ray_dy)>> ELSE Inf
        fx == RatSub(<<px, TileUnits>>, <<map_col, 1>>)
        fy == RatSub(<<py, TileUnits>>, <<map_row, 1>>)
    IN  [ ray_angle |-> a,
          map_col |-> map_col,
          map_row |-> map_row,
          delta_dist_x |-> delta_dist_x,
          delta_dist_y |-> delta_dist_y,
          step_x |-> IF ray_dx < 0 THEN -1 ELSE 1,
          side_dist_x |-> IF ray_dx < 0
                            THEN RatMul(fx, delta_dist_x)
                            ELSE RatMul(RatSub(<<1, 1>>, fx), delta_dist_x),
          step_y |-> IF ray_dy < 0 THEN -1 ELSE 1,
          side_dist_y |-> IF ray_dy < 0
                            THEN RatMul(fy, delta_dist_y)
                            ELSE RatMul(RatSub(<<1, 1>>, fy), delta_dist_y),
          wall_hit |-> FALSE,
          hit_side |-> 0,
          depth |-> 0,
          start_col |-> map_col,
          start_row |-> map_row,
          path |-> <<>> ]

\* the loop test with the depth limit off by one
dda_continues_one_more(r, max_depth) == ~r.wall_hit /\ r.depth <= max_depth

\* _cast_ray: while not wall_hit and depth < self.MAX_DEPTH
dda_continues(r, max_depth) == ~r.wall_hit /\ r.depth < max_depth

\* _cast_ray: one pass of the DDA loop; path records the cells entered
dda_step(r) ==
    LET along_x == RatLess(r.side_dist_x, r.side_dist_y)
        c == IF along_x THEN r.map_col + r.step_x ELSE r.map_col
        w == IF along_x THEN r.map_row ELSE r.map_row + r.step_y
    IN  [ r EXCEPT
            !.side_dist_x = IF along_x THEN RatAdd(@, r.delta_dist_x) ELSE @,
            !.side_dist_y = IF along_x THEN @ ELSE RatAdd(@, r.delta_dist_y),
            !.map_col = c,
            !.map_row = w,
            !.hit_side = IF along_x THEN 0 ELSE 1,
            !.wall_hit = (get_tile(c, w) = WALL),
            !.depth = @ + 1,
            !.path = Append(@, <<c, w>>) ]

\* perp_dist taken from the side distance without the last step removed
perp_dist_no_step_back(r) ==
    IF r.hit_side = 0
        THEN RatTimes(r.side_dist_x, TILE_SIZE)
        ELSE RatTimes(r.side_dist_y, TILE_SIZE)

\* _cast_ray: perp_dist, in pixels, before the clamp
perp_dist_of(r) ==
    IF r.hit_side = 0
        THEN RatTimes(RatSub(r.side_dist_x, r.delta_dist_x), TILE_SIZE)
        ELSE RatTimes(RatSub(r.side_dist_y, r.delta_dist_y), TILE_SIZE)

\* _cast_ray: the distance used for height and shade
distance_of(r, pa) ==
    LET perp_dist == RatMax(perp_dist_of(r), MinDist)
    IN  IF FISHEYE_CORRECTION
            THEN perp_dist
            ELSE RatMul(perp_dist, <<TRIG, Cos(r.ray_angle - pa)>>)

\* the height with the quotient turned upside down
wall_height_inverted(distance) ==
    RatInt(RatTimes(RatOver(distance, TILE_SIZE), SCREEN_HEIGHT))

\* _cast_ray: wall_height = int((TILE_SIZE / distance) * self.screen_height)
wall_height_of(distance) ==
    RatInt(RatTimes(<<TILE_SIZE * distance[2], distance[1]>>, SCREEN_HEIGHT))

\* _cast_ray: shade = max(40, min(255, 255 - int(tile_dist * 18)))
shade_of(distance) ==
    LET tile_dist == RatOver(distance, TILE_SIZE)
    IN  Max(40, Min(255, 255 - RatInt(RatTimes(tile_dist, 18))))

-----------------------------------------------------------------------------
(* Bounds and inputs *)

\* direct calls made on one object in one behaviour
MaxCalls == 2

\* the arguments tried for get_tile: a band around the 16 x 16 grid
TileArgs == -3 .. 18

\* displacements tried for _try_move, in pixels
MoveDeltas == {-200, -27, 0, 5, 27}

\* start positions of a Player, in pixels: the centre of tile (1, 1), used by
\* the tests, and two points of the open area, all at least MARGIN away from
\* every wall tile on both axes
StartPositions == {<<96, 96>>, <<690, 325>>, <<608, 352>>}

\* start angles given to Player(...): the constructor takes any float
StartAngles == {0, 6, 45, TWO_PI + 5, -7}

\* keys held during a frame
KeyChoices == {{}, {"w"}, {"s"}, {"a"}, {"d"}, {"w", "a"}, {"w", "s", "a", "d"}}

\* pointer motion of a frame, in units of 1 / ROT_SPEED
MouseDeltas == {0, 5, -20, 3 * TWO_PI + 1}

\* viewer positions of a cast, in world units, all in EMPTY tiles: the centres
\* of tiles (1, 1), (1, 7), (9, 5) and (14, 14); the corner (64, 64) of tile
\* (1, 1); two points off the centre of their tile; a point 1/UNIT of a pixel
\* from the right edge of tile (1, 1)
ViewerPositions ==
    { <<Centre(1), Centre(1)>>, <<Centre(1), Centre(7)>>, <<Centre(9), Centre(5)>>,
      <<Centre(14), Centre(14)>>, <<TileUnits, TileUnits>>,
      <<400 * UNIT, 300 * UNIT>>, <<350 * UNIT + 7, 290 * UNIT + 131>>,
      <<2 * TileUnits - 1, Centre(1)>> }

\* viewer headings of a cast: every angle of the table, and two outside [0, 2*pi)
ViewerAngles == (0 .. TWO_PI - 1) \cup {TWO_PI + 5, -7}

\* screen widths given to Raycaster(...): divisors of FOV
ScreenWidths == {4, 5}

\* values of Raycaster.MAX_DEPTH: the program's 20 and two smaller limits
MaxDepths == {1, 3, 20}

\* corrected distances of a column, in pixels: the clamp 0.0001, half a pixel,
\* one-pixel steps from 10 tiles on, and 1 to 20 tiles
DistanceChoices ==
    {MinDist, <<1, 2>>}
        \cup {<<n, 1>> : n \in 640 .. 648}
        \cup {<<k * TILE_SIZE, 1>> : k \in 1 .. 20}

-----------------------------------------------------------------------------
(* Map queries: get_tile called with any pair of integers *)

GetTileCall ==
    /\ pc = "idle"
    /\ calls < MaxCalls
    /\ \E c \in TileArgs, r \in TileArgs :
        call' = [op |-> "get_tile", col |-> c, row |-> r, result |-> get_tile(c, r)]
    /\ calls' = calls + 1
    /\ UNCHANGED <<x, y, angle, screen_width, MAX_DEPTH, pc, col, ray_results,
                   ray, cast_log>>

InitMap == Constructed(Centre(1), Centre(1), 0, 4, 20)

NextMap == GetTileCall

SpecMap == InitMap /\ [][NextMap]_vars

InGrid(c, r) == 0 <= c /\ c < num_cols /\ 0 <= r /\ r < num_rows

\* C1: get_tile is total: inside the grid it returns the stored tile
\* grid[row][col], and for every other pair of integers it returns WALL
C1_GetTileTotal ==
    call.op = "get_tile" =>
        /\ call.result \in {WALL, EMPTY}
        /\ InGrid(call.col, call.row) => call.result = grid[call.row + 1][call.col + 1]
        /\ ~InGrid(call.col, call.row) => call.result = WALL

\* C1 witness: get_tile has answered WALL for a pair that is too large on
\* one axis and negative on the other
C1_Witness ==
    /\ call.op = "get_tile"
    /\ call.col = num_cols /\ call.row = -1
    /\ call.result = WALL

-----------------------------------------------------------------------------
(* Movement: _try_move called directly, as the tests do *)

TryMoveCall ==
    /\ pc = "idle"
    /\ calls < MaxCalls
    /\ \E dx \in MoveDeltas, dy \in MoveDeltas :
        LET p == try_move(x, y, dx * UNIT, dy * UNIT)
        IN  /\ x' = p[1]
            /\ y' = p[2]
            /\ call' = [op |-> "try_move", x0 |-> x, y0 |-> y,
                        delta_x |-> dx * UNIT, delta_y |-> dy * UNIT]
    /\ calls' = calls + 1
    /\ UNCHANGED <<angle, screen_width, MAX_DEPTH, pc, col, ray_results, ray, cast_log>>

InitMove ==
    \E p \in StartPositions : Constructed(p[1] * UNIT, p[2] * UNIT, 0, 4, 20)

NextMove == TryMoveCall

SpecMove == InitMove /\ [][NextMove]_vars

\* the last call was _try_move from a position in an EMPTY tile
Moved == call.op = "try_move" /\ ~is_wall(call.x0, call.y0)

OnlyX == call.delta_x # 0 /\ call.delta_y = 0

OnlyY == call.delta_x = 0 /\ call.delta_y # 0

\* the probes of the X move and of a Y move made from the unchanged x
XProbesClear ==
    /\ ~is_wall(call.x0 + call.delta_x, call.y0 - MARGIN * UNIT)
    /\ ~is_wall(call.x0 + call.delta_x, call.y0 + MARGIN * UNIT)

YProbesClear ==
    /\ ~is_wall(call.x0 - MARGIN * UNIT, call.y0 + call.delta_y)
    /\ ~is_wall(call.x0 + MARGIN * UNIT, call.y0 + call.delta_y)

\* C2 as stated: a single-axis move leaves the coordinate unchanged when the
\* destination point is in a WALL tile and changes it by exactly the delta
\* when the destination point is in an EMPTY tile; the other coordinate stays
C2_AsStated ==
    /\ (Moved /\ OnlyX) =>
        /\ y = call.y0
        /\ is_wall(call.x0 + call.delta_x, call.y0) => x = call.x0
        /\ ~is_wall(call.x0 + call.delta_x, call.y0) => x = call.x0 + call.delta_x
    /\ (Moved /\ OnlyY) =>
        /\ x = call.x0
        /\ is_wall(call.x0, call.y0 + call.delta_y) => y = call.y0
        /\ ~is_wall(call.x0, call.y0 + call.delta_y) => y = call.y0 + call.delta_y

\* C2 amended: a single-axis move leaves the coordinate unchanged when the
\* destination point is in a WALL tile, changes it by exactly the delta when
\* both probe points (the destination shifted by -MARGIN and +MARGIN on the
\* other axis) are in EMPTY tiles, and leaves it unchanged when a probe point
\* is in a WALL tile; the other coordinate stays
C2_SingleAxisMove ==
    /\ (Moved /\ OnlyX) =>
        /\ y = call.y0
        /\ is_wall(call.x0 + call.delta_x, call.y0) => x = call.x0
        /\ XProbesClear => x = call.x0 + call.delta_x
        /\ ~XProbesClear => x = call.x0
    /\ (Moved /\ OnlyY) =>
        /\ x = call.x0
        /\ is_wall(call.x0, call.y0 + call.delta_y) => y = call.y0
        /\ YProbesClear => y = call.y0 + call.delta_y
        /\ ~YProbesClear => y = call.y0

\* C2 witness: a single-axis X move whose destination point is in an EMPTY
\* tile was refused because a probe point is in a WALL tile
C2_Witness ==
    /\ Moved /\ OnlyX
    /\ ~is_wall(call.x0 + call.delta_x, call.y0)
    /\ ~XProbesClear
    /\ x = call.x0

\* C10: a diagonal move whose X component is blocked while the point
\* (x, y + delta_y) is in open space commits the Y component, and one whose
\* Y component is blocked while (x + delta_x, y) is in open space commits X
C10_SlidesAlongWall ==
    (Moved /\ call.delta_x # 0 /\ call.delta_y # 0) =>
        /\ (~XProbesClear /\ ~is_wall(call.x0, call.y0 + call.delta_y))
              => y = call.y0 + call.delta_y
        /\ (y = call.y0 /\ ~is_wall(call.x0 + call.delta_x, call.y0))
              => x = call.x0 + call.delta_x

-----------------------------------------------------------------------------
(* Frames: handle_input called once per frame *)

HandleInput ==
    /\ pc = "idle"
    /\ calls < MaxCalls
    /\ \E keys \in KeyChoices, mouse_dx \in MouseDeltas :
        LET p == handle_input(x, y, angle, keys, mouse_dx)
        IN  /\ x' = p[1]
            /\ y' = p[2]
            /\ angle' = p[3]
            /\ call' = [op |-> "handle_input", x0 |-> x, y0 |-> y, angle0 |-> angle,
                        keys |-> keys, mouse_dx |-> mouse_dx]
    /\ calls' = calls + 1
    /\ UNCHANGED <<screen_width, MAX_DEPTH, pc, col, ray_results, ray, cast_log>>

InitPlayer ==
    \E p \in StartPositions, a \in StartAngles :
        Constructed(p[1] * UNIT, p[2] * UNIT, a, 4, 20)

NextPlayer == HandleInput

SpecPlayer == InitPlayer /\ [][NextPlayer]_vars

\* C3: in every state of a Player, from construction onward, the heading
\* lies in [0, 2*pi)
C3_HeadingNormalised == 0 <= angle /\ angle < TWO_PI

-----------------------------------------------------------------------------
(* Rendering: cast_all, one _cast_ray per column, one DDA pass per step *)

CastAllBegin ==
    /\ pc = "idle"
    /\ pc' = "loop"
    /\ col' = 0
    /\ ray_results' = <<>>
    /\ cast_log' = <<>>
    /\ UNCHANGED <<x, y, angle, screen_width, MAX_DEPTH, ray, call, calls>>

CastRayBegin ==
    /\ pc = "loop"
    /\ col < screen_width
    /\ ray' = cast_ray_begin(ray_angle_of(angle, screen_width, col), x, y)
    /\ pc' = "dda"
    /\ UNCHANGED <<x, y, angle, screen_width, MAX_DEPTH, col, ray_results,
                   cast_log, call, calls>>

DDAStep ==
    /\ pc = "dda"
    /\ dda_continues(ray, MAX_DEPTH)
    /\ ray' = dda_step(ray)
    /\ UNCHANGED <<x, y, angle, screen_width, MAX_DEPTH, pc, col, ray_results,
                   cast_log, call, calls>>

\* the rest of _cast_ray after the loop, and the rest of the loop body of
\* cast_all: the darkening of north/south hits and the append
CastRayFinish ==
    /\ pc = "dda"
    /\ ~dda_continues(ray, MAX_DEPTH)
    /\ LET distance == distance_of(ray, angle)
           wall_height == wall_height_of(distance)
           shade == shade_of(distance)
           shown == IF ray.hit_side = 1 THEN darken(shade) ELSE shade
       IN  /\ ray_results' = append(ray_results, <<wall_height, shown>>)
           /\ cast_log' = Append(cast_log,
                  [ col |-> col, ray_angle |-> ray.ray_angle,
                    hit_side |-> ray.hit_side, wall_hit |-> ray.wall_hit,
                    depth |-> ray.depth, path |-> ray.path,
                    map_col |-> ray.map_col, map_row |-> ray.map_row,
                    start_col |-> ray.start_col, start_row |-> ray.start_row,
                    distance |-> distance, wall_height |-> wall_height,
                    shade |-> shade ])
    /\ col' = col + 1
    /\ ray' = NoRay
    /\ pc' = "loop"
    /\ UNCHANGED <<x, y, angle, screen_width, MAX_DEPTH, call, calls>>

CastAllReturn ==
    /\ pc = "loop"
    /\ col = screen_width
    /\ pc' = "returned"
    /\ UNCHANGED <<x, y, angle, screen_width, MAX_DEPTH, col, ray_results, ray,
                   cast_log, call, calls>>

Init ==
    \E p \in ViewerPositions, a \in ViewerAngles, w \in ScreenWidths, d \in MaxDepths :
        Constructed(p[1], p[2], a, w, d)

Next ==
    \/ CastAllBegin
    \/ CastRayBegin
    \/ DDAStep
    \/ CastRayFinish
    \/ CastAllReturn

Spec == Init /\ [][Next]_vars

\* the rays cast so far
Cast == 1 .. Len(cast_log)

\* C4: cast_all returns exactly screen_width (wall_height, shade) pairs in
\* column order: entry i is the result of the ray cast at angle
\* (heading - fov/2) + i * (fov / screen_width), none missing, duplicated or
\* reordered
C4_ColumnOrder ==
    /\ Len(ray_results) = Len(cast_log)
    /\ pc = "returned" => Len(ray_results) = screen_width
    /\ \A i \in Cast :
        /\ cast_log[i].col = i - 1
        /\ cast_log[i].ray_angle =
              (angle - FOV \div 2) + (i - 1) * (FOV \div screen_width)
        /\ ray_results[i][1] = cast_log[i].wall_height
        /\ ray_results[i][2] =
              IF cast_log[i].hit_side = 1
                  THEN (cast_log[i].shade * 3) \div 4
                  ELSE cast_log[i].shade

\* C4 witness: cast_all has returned a full row of columns that are not all
\* alike
C4_Witness ==
    /\ pc = "returned"
    /\ Len(ray_results) = screen_width
    /\ ray_results[1] # ray_results[screen_width]

\* C5: every pair of cast_all has a wall_height that is a positive integer
\* and a shade that is an integer in [0, 255], darkened or not, wall hit or not
C5_ResultRanges ==
    \A i \in 1 .. Len(ray_results) :
        /\ ray_results[i][1] \in Nat
        /\ ray_results[i][1] > 0
        /\ ray_results[i][2] \in 0 .. 255

\* C5 witness: a returned row holds a darkened north/south hit and a ray that
\* stopped at the depth limit without hitting a wall
C5_Witness ==
    /\ pc = "returned"
    /\ \E i \in Cast : cast_log[i].wall_hit /\ cast_log[i].hit_side = 1
    /\ \E j \in Cast : ~cast_log[j].wall_hit

\* the cells of a path before its last one are not WALL
OpenBeforeLast(path) ==
    \A n \in 1 .. Len(path) - 1 : get_tile(path[n][1], path[n][2]) # WALL

\* the last cell of a non-empty path is WALL
EndsInWall(path) ==
    /\ Len(path) > 0
    /\ get_tile(path[Len(path)][1], path[Len(path)][2]) = WALL

\* the ray of a record runs along a grid axis
AlongAxis(e) == e.ray_angle % (TWO_PI \div 4) = 0

\* the unit step of an axis-parallel ray, as <<columns, rows>>
AxisStep(e) == <<Cos(e.ray_angle) \div TRIG, Sin(e.ray_angle) \div TRIG>>

\* the number of tiles from tile (c, r) to the first WALL tile along a step
RECURSIVE AxisGap(_, _, _, _)
AxisGap(c, r, step, k) ==
    IF get_tile(c + k * step[1], r + k * step[2]) = WALL
        THEN k
        ELSE AxisGap(c, r, step, k + 1)

\* what holds of the DDA loop in every state
DDAStepsBounded ==
    /\ pc = "dda" =>
        /\ ray.depth <= MAX_DEPTH
        /\ Len(ray.path) = ray.depth
        /\ OpenBeforeLast(ray.path)
        /\ ray.wall_hit <=> EndsInWall(ray.path)
    /\ \A i \in Cast :
        LET e == cast_log[i]
        IN  /\ Len(e.path) = e.depth
            /\ OpenBeforeLast(e.path)
            /\ e.wall_hit <=> EndsInWall(e.path)
            /\ e.depth = IF e.wall_hit THEN Len(e.path) ELSE MAX_DEPTH
            /\ e.depth <= MAX_DEPTH
            /\ (AlongAxis(e) /\ AxisGap(e.start_col, e.start_row, AxisStep(e), 1) = 1)
                  => e.depth = 1

\* every pass of the loop is one more step into one more cell, and the loop
\* is left only with a wall hit or the depth limit reached
DDAProgress ==
    /\ (pc = "dda" /\ pc' = "dda") =>
        /\ ray'.depth = ray.depth + 1
        /\ ~ray.wall_hit
    /\ (pc = "dda" /\ pc' # "dda") =>
        /\ ray.wall_hit \/ ray.depth = MAX_DEPTH

\* C6: the DDA loop terminates after min(MAX_DEPTH, n) steps, n the first
\* step that enters a WALL cell: every pass adds one step, it never steps
\* past a WALL cell, never makes more than MAX_DEPTH steps, and facing a WALL
\* cell one step away it stops after exactly 1 step
C6_DDASteps == []DDAStepsBounded /\ [][DDAProgress]_vars

\* C6 witness: one ray stopped at a wall after more than one step and
\* another stopped at the depth limit without a wall
C6_Witness ==
    /\ \E i \in Cast : cast_log[i].wall_hit /\ cast_log[i].depth > 1
                        /\ cast_log[i].depth < MAX_DEPTH
    /\ \E j \in Cast : ~cast_log[j].wall_hit /\ cast_log[j].depth = MAX_DEPTH

\* the viewer stands at the centre of its tile
AtCentre == x % TileUnits = TileUnits \div 2 /\ y % TileUnits = TileUnits \div 2

\* C7 as stated: from the centre of a cell, a ray along an axis towards a
\* wall k tiles away has distance k * TILE_SIZE, for every MAX_DEPTH > k
C7_AsStated ==
    \A i \in Cast :
        LET e == cast_log[i]
            k == AxisGap(e.start_col, e.start_row, AxisStep(e), 1)
        IN  (AtCentre /\ AlongAxis(e) /\ MAX_DEPTH > k)
                => RatEq(e.distance, <<k * TILE_SIZE, 1>>)

\* C7 amended: from the centre of a cell, a ray along an axis whose first
\* WALL tile is the k-th tile from the viewer's tile has distance
\* (k - 1/2) * TILE_SIZE, the distance to the near face of that tile, for
\* every MAX_DEPTH > k
C7_AxisDistance ==
    \A i \in Cast :
        LET e == cast_log[i]
            k == AxisGap(e.start_col, e.start_row, AxisStep(e), 1)
        IN  (AtCentre /\ AlongAxis(e) /\ MAX_DEPTH > k)
                => RatEq(e.distance, <<(2 * k - 1) * TILE_SIZE, 2>>)

\* C7 witness: such a ray has been cast at a wall more than two tiles away
C7_Witness ==
    \E i \in Cast :
        LET e == cast_log[i]
            k == AxisGap(e.start_col, e.start_row, AxisStep(e), 1)
        IN  AtCentre /\ AlongAxis(e) /\ MAX_DEPTH > k /\ k > 2 /\ e.wall_hit

\* the viewer looks along a grid axis, so head-on at the faces across it
HeadOn == angle % (TWO_PI \div 4) = 0

\* the side of the faces a head-on viewer looks at: 0 looking east or west
FacedSide == IF angle % (TWO_PI \div 2) = 0 THEN 0 ELSE 1

\* two rays ended on the same flat face in front of a head-on viewer
SameFace(a, b) ==
    /\ a.wall_hit /\ b.wall_hit
    /\ a.hit_side = FacedSide /\ b.hit_side = FacedSide
    /\ IF FacedSide = 0 THEN a.map_col = b.map_col ELSE a.map_row = b.map_row

\* C8: the distance used for height and shade is the perpendicular distance
\* to the hit: for a viewer facing a flat wall face head-on, every ray that
\* hits that face yields the same distance
C8_PerpendicularDistance ==
    \A i \in Cast, j \in Cast :
        (HeadOn /\ SameFace(cast_log[i], cast_log[j]))
            => RatEq(cast_log[i].distance, cast_log[j].distance)

-----------------------------------------------------------------------------
(* The per-column derivation of _cast_ray, applied to two distances *)

DeriveColumns ==
    /\ pc = "idle"
    /\ calls < MaxCalls
    /\ \E d1 \in DistanceChoices, d2 \in DistanceChoices :
        call' = [op |-> "derive", d1 |-> d1, d2 |-> d2,
                 wall_height1 |-> wall_height_of(d1), shade1 |-> shade_of(d1),
                 wall_height2 |-> wall_height_of(d2), shade2 |-> shade_of(d2)]
    /\ calls' = calls + 1
    /\ UNCHANGED <<x, y, angle, screen_width, MAX_DEPTH, pc, col, ray_results,
                   ray, cast_log>>

InitColumn == Constructed(Centre(1), Centre(1), 0, 4, 20)

NextColumn == DeriveColumns

SpecColumn == InitColumn /\ [][NextColumn]_vars

\* two distances d1 < d2, both at or above the clamp, have been derived
DerivedInOrder ==
    /\ call.op = "derive"
    /\ ~RatLess(call.d1, MinDist)
    /\ RatLess(call.d1, call.d2)

\* C9 as stated: for d1 < d2 the wall_height of d2 is strictly smaller than
\* that of d1, and the shade of d2 is not greater than that of d1
C9_AsStated ==
    DerivedInOrder =>
        /\ call.wall_height2 < call.wall_height1
        /\ call.shade2 <= call.shade1

\* C9 amended: for d1 < d2 the wall_height of d2 is not greater than that of
\* d1 (equal when both quotients truncate to the same integer), and the shade
\* of d2 is not greater than that of d1
C9_Monotone ==
    DerivedInOrder =>
        /\ call.wall_height2 <= call.wall_height1
        /\ call.shade2 <= call.shade1

\* C9 witness: two distances one pixel apart were derived to the same
\* wall_height, and the farther one to the darker shade
C9_Witness ==
    /\ DerivedInOrder
    /\ call.wall_height2 = call.wall_height1
    /\ call.shade2 < call.shade1

-----------------------------------------------------------------------------
(* Walking: any mix of _try_move and handle_input calls on one Player *)

\* start positions of a walk, in world units, all in EMPTY tiles: the start
\* positions of a Player; the corner (64, 64) of tile (1, 1), on two wall faces;
\* a point 1/UNIT of a pixel from the right edge of tile (14, 14); a point
\* 6 pixels below the top wall
WalkStarts ==
    {<<p[1] * UNIT, p[2] * UNIT>> : p \in StartPositions}
        \cup { <<TileUnits, TileUnits>>,
               <<15 * TileUnits - 1, Centre(14)>>,
               <<200 * UNIT, 70 * UNIT>> }

\* start headings of a walk
WalkAngles == {0, 6, 45}

InitWalk ==
    \E p \in WalkStarts, a \in WalkAngles : Constructed(p[1], p[2], a, 4, 20)

NextWalk ==
    \/ TryMoveCall
    \/ HandleInput

SpecWalk == InitWalk /\ [][NextWalk]_vars

\* C11: starting inside an EMPTY tile, after any sequence of _try_move and
\* handle_input calls with any deltas the position is never inside a WALL
\* tile and never outside the grid: is_wall(x, y) is false in every state
C11_NeverInWall ==
    /\ ~is_wall(x, y)
    /\ 0 <= x /\ x < num_cols * TileUnits
    /\ 0 <= y /\ y < num_rows * TileUnits

\* C11 witness: a second call in a row asked for a destination inside a WALL
\* tile or outside the grid, after a handle_input or _try_move that moved
\* the player
C11_Witness ==
    /\ calls = 2
    /\ call.op = "try_move"
    /\ is_wall(call.x0 + call.delta_x, call.y0 + call.delta_y)
    /\ <<call.x0, call.y0>> \notin WalkStarts
    /\ ~is_wall(x, y)

====
